---- MODULE Spec2Model ----
(***************************************************************************)
(* Deployment orchestration pipeline of deploy-easy.                       *)
(*                                                                         *)
(* A run is one execution of DeploymentService.deploy(project).  Every     *)
(* `await` of the code is one step of the run: the promise it waits for    *)
(* settles (fulfilled or rejected) and the synchronous code up to the next *)
(* `await` executes with it.  Runs of the same Node.js process interleave  *)
(* at these steps only.                                                    *)
(*                                                                         *)
(* External collaborators are modelled by their state: the project store   *)
(* (status), the workspace directory, the container runtime (containers),  *)
(* and the nginx configuration directories.                                *)
(***************************************************************************)
EXTENDS Integers, Sequences, FiniteSets, TLC

\* ------------------------------------------------------------------ bounds

\* deploy requests accepted in one behaviour of the whole pipeline
MaxRuns == 2

\* deploy requests accepted in one behaviour of the single-run pipeline
MaxSolo == 1

\* calls of the container runtime driver in one behaviour of the driver
MaxCalls == 2

\* deploy requests for one project in one behaviour of the redeploy pipeline
MaxRedeploys == 3

\* calls of cleanup(project) for one project in one behaviour
MaxCleanups == 2

\* length of the subdomains tried
MaxLen == 2

\* length of the relative paths of the files of a publish directory
MaxPath == 3

\* files in a publish directory
MaxFiles == 2

\* ------------------------------------------------------- program constants

\* this.portCounter = 3001 in the DockerService constructor
BasePort == 3001

\* waitForReadiness(container, projectId, maxWaitMs = 60_000)
MaxWaitMs == 60000

\* await this.sleep(2000) between two polls, and as the grace period of a
\* container without a health check
PollSleepMs == 2000

\* await this.sleep(1000) after an inspection that failed
RetrySleepMs == 1000

\* the projects of the store; project 1 is a server app, the build type of
\* project 2 is chosen initially
Projects == {1, 2}

VARIABLES
    \* --- project store
    status,         \* Project.status, per project
    buildType,      \* Project.buildType, per project
    currentDeployment, \* Project.currentDeployment, per project
    deployments,    \* Project.deployments, the history list, per project
    containerId,    \* the top-level containerId of the project document
    exists,         \* the project record is in the store
    storedSubDomain, \* Project.subDomain as stored, a sequence of characters
    name,           \* Project.name, per project
    \* --- runs of deploy()
    pc,             \* position of each run: the await it is suspended at
    proj,           \* project of each run (0: run not started)
    failed,         \* a rejection entered deploy()'s catch block
    result,         \* settlement of the promise deploy() returned
    statusWrites,   \* statuses this run has written to the store, in order
    catchLogged,    \* deploy()'s catch emitted 'Deployment failed: ...'
    cleanupTried,   \* fs.rm of the workspace was issued by this run
    \* --- file system
    workspace,      \* existing directories under /tmp/deployments
    \* --- container runtime
    containers,     \* containers known to the docker daemon
    portCounter,    \* DockerService.portCounter
    listed,         \* result of the listing inside getNextAvailablePort (the
                    \* set is dropped, the path kept, once the call returned)
    hostPort,       \* port returned to each run by getNextAvailablePort
    overlapped,     \* two getNextAvailablePort calls were suspended together
    existing,       \* container found by stopExistingContainer (-1: none)
    image,          \* the image tag project-{id}:latest exists
    built,          \* how the image build of each run ended
    \* --- object storage
    objects,        \* objects exist under the prefix projects/{subDomain}
    \* --- project deletion
    dpc,            \* position of deleteProject / cleanup for each project
    cleanupResult,  \* how the last cleanup(project) call settled
    delFault,       \* a storage or runtime call of the teardown failed
    cleanupCalls,   \* calls of cleanup(project) made for each project
    \* --- reverse proxy
    ruleOk,         \* whether the rule rendered for a subdomain passes nginx -t
    tmpConf,        \* /tmp/{serverName}.conf: port written, 0 when absent
    sitesAvailable, \* sites-available/{serverName}.conf: port, 0 when absent
    sitesEnabled,   \* sites-enabled/{serverName}.conf symlink exists
    loaded,         \* rules the running nginx serves (port, 0 when none)
    \* --- one call of waitForReadiness, poll by poll
    wpc,            \* the await the call is suspended at
    wclock,         \* Date.now() - start, in milliseconds
    polls,          \* iterations of the polling loop entered
    wresult,        \* how the call settled
    lastInfo,       \* what the last container.inspect() of the call answered
    sawFatal,       \* an inspection of the call answered not running or unhealthy
    \* --- one call of uploadDirectory
    distFiles,      \* relative paths of the files under the publish directory
    bucket,         \* keys of the objects in the bucket
    upc,            \* position of the call
    \* --- log entries
    logs,           \* Project.currentDeployment.logs as stored, per project
    inFlight,       \* saves of saveLogToDatabase issued and not yet settled
    emitted,        \* entries emitLog was called for, per run
    published,      \* entries emitted to a socket room, with the key of the room
    \* --- one call of stopContainer
    spc,            \* the await the call is suspended at
    stopArg,        \* its containerId argument
    sfault,         \* the daemon answered a call of it with a server error
    \* --- one call of deleteFiles
    fpc,            \* the await the call is suspended at
    ftarget,        \* the project whose s3Path it was called with
    flisted         \* the keys ListObjectsV2 answered

\* the fields of the project record no deployment step writes
storeRest == <<deployments, containerId, exists, storedSubDomain>>
storeVars == <<status, buildType, currentDeployment, storeRest>>
runVars == <<pc, proj, failed, result, statusWrites, catchLogged, cleanupTried>>
fsVars == <<workspace>>
dockerVars == <<containers, portCounter, listed, hostPort, overlapped, existing, image, built>>
nginxVars == <<ruleOk, tmpConf, sitesAvailable, sitesEnabled, loaded>>
s3Vars == <<objects>>
teardownVars == <<dpc, cleanupResult, delFault, cleanupCalls>>

readyVars == <<wpc, wclock, polls, wresult, lastInfo, sawFatal>>

\* the state of the pipeline, of the store and of the teardown
baseVars == <<storeVars, runVars, fsVars, dockerVars, nginxVars, s3Vars, teardownVars>>

uploadVars == <<distFiles, bucket, upc>>

logVars == <<logs, inFlight, emitted, published>>

stopVars == <<spc, stopArg, sfault>>

deleteVars == <<fpc, ftarget, flisted>>

vars == <<baseVars, name, readyVars, uploadVars, logVars, stopVars, deleteVars>>

\* What the steps of the pipeline, of the store and of the teardown leave
\* alone: no step renames a project, and the polls of the readiness wait
\* the keys of the uploaded objects and the log entries are followed in
\* specifications of their own.
Elsewhere == UNCHANGED <<name, readyVars, uploadVars, logVars, stopVars, deleteVars>>

\* ------------------------------------------------------------- helpers

\* the slots of runs (calls) of this behaviour
Runs == DOMAIN pc

\* the project a run deploys
ProjectOf(r) == proj[r]

\* path.join(this.tempDir, project.name): one directory per project name
projectPath(r) == name[proj[r]]

\* project.subDomain, which names the proxy rule files
subDomain(r) == proj[r]

Active(r) == proj[r] # 0 /\ pc[r] # "done"

WorkspaceExists(r) == projectPath(r) \in workspace

\* ---------------------------------------------------- container runtime

\* containers.find(c => c.Names.some(n => n.includes(`project-${id}`)))
NamedFor(p) == {c \in containers : c.name = p}

ContainerById(i) == {c \in containers : c.id = i}

\* the set `used` built from one listing: every deployflow.port label, and
\* every PublicPort (present for running containers only)
UsedPorts(cs) ==
    {c.label : c \in {d \in cs : d.label # 0}}
        \cup {c.bound : c \in {d \in cs : d.state = "running" /\ d.bound # 0}}

RECURSIVE SkipUsed(_, _)
\* while (used.has(this.portCounter)) this.portCounter++
SkipUsed(used, n) == IF n \in used THEN SkipUsed(used, n + 1) ELSE n

\* the port the call returns on the normal path: the first candidate from
\* the counter on that is not in `used`
NormalPort(used, counter) == SkipUsed(used, counter)

\* a fallback that starts again from the base port
FallbackPort_FromBase(counter) == BasePort

\* the port the call returns on the listing-error path:
\* this.portCounter++; return this.portCounter - 1
FallbackPort(counter) == (counter + 1) - 1

\* a getNextAvailablePort that returns this.portCounter without ++
CounterAfter_NoIncrement(port) == port

\* the counter after a port was returned: return this.portCounter++
CounterAfter(port) == port + 1

\* a runContainer that gives the container no fixed name
NameFree_NoName(p) == TRUE

\* docker refuses a second container of the same name (409 conflict)
NameFree(p) == NamedFor(p) = {}

\* docker refuses to start on a host port another running container binds
PortFree(port) == \A c \in containers : ~(c.state = "running" /\ c.bound = port)

\* ----------------------------------------------------------- nginx state

\* the rule set nginx reads: the enabled symlinks resolve to sites-available
EnabledConfig == [s \in Projects |-> IF sitesEnabled[s] THEN sitesAvailable[s] ELSE 0]

\* nginx -t validates the whole configuration, not one rule
ConfigValid == \A s \in Projects : sitesEnabled[s] => (sitesAvailable[s] # 0 /\ ruleOk[s])

\* ------------------------------------------------------------------ Init

\* no listing held by a call
NoListing == [ok |-> TRUE, used |-> {}]

\* Containers left by an earlier process lifetime: none, the container of a
\* deployed project 1, or an unmanaged container bound to the base port.
SeedManaged == [id |-> 0, name |-> 1, label |-> BasePort, bound |-> BasePort, state |-> "running"]
SeedExternal == [id |-> 0, name |-> 0, label |-> 0, bound |-> BasePort, state |-> "running"]

\* the subdomains the projects of the store were created with
SeedSubDomain(p) == IF p = 1 THEN <<"a">> ELSE <<"b">>

\* a log entry of the deployment that put the seed container in place
SeedEntry == [run |-> 0, n |-> 1]

\* the state a process starts in, with room for n runs, the container
\* runtime being in one of the states `seeds`; the project records and the
\* build types apart
InitState(n, seeds) ==
    /\ \E seed \in seeds :
        /\ containers = CASE seed = "fresh" -> {}
                          [] seed = "deployed" -> {SeedManaged}
                          [] seed = "external" -> {SeedExternal}
        /\ status = [p \in Projects |-> IF seed = "deployed" /\ p = 1 THEN "running" ELSE "idle"]
        /\ currentDeployment = [p \in Projects |->
                IF seed = "deployed" /\ p = 1
                THEN [set |-> TRUE, version |-> 0, s3Path |-> FALSE, containerId |-> 0]
                ELSE [set |-> FALSE, version |-> -1, s3Path |-> FALSE, containerId |-> -1]]
        /\ image = [p \in Projects |-> seed = "deployed" /\ p = 1]
        /\ sitesAvailable = [p \in Projects |-> IF seed = "deployed" /\ p = 1 THEN BasePort ELSE 0]
        /\ sitesEnabled = [p \in Projects |-> seed = "deployed" /\ p = 1]
        /\ loaded = [p \in Projects |-> IF seed = "deployed" /\ p = 1 THEN BasePort ELSE 0]
        /\ logs = [p \in Projects |-> IF seed = "deployed" /\ p = 1 THEN <<SeedEntry>> ELSE <<>>]
    /\ ruleOk \in {f \in [Projects -> BOOLEAN] :
                     \A p \in Projects : (buildType[p] = "static" \/ sitesEnabled[p]) => f[p]}
    /\ pc = [r \in 1..n |-> "idle"]
    /\ proj = [r \in 1..n |-> 0]
    /\ failed = [r \in 1..n |-> FALSE]
    /\ result = [r \in 1..n |-> "pending"]
    /\ statusWrites = [r \in 1..n |-> <<>>]
    /\ catchLogged = [r \in 1..n |-> FALSE]
    /\ cleanupTried = [r \in 1..n |-> FALSE]
    /\ workspace = {}
    /\ portCounter = BasePort
    /\ listed = [r \in 1..n |-> NoListing]
    /\ hostPort = [r \in 1..n |-> 0]
    /\ overlapped = FALSE
    /\ existing = [r \in 1..n |-> -1]
    /\ tmpConf = [p \in Projects |-> 0]
    /\ built = [r \in 1..n |-> "none"]
    /\ deployments = [p \in Projects |-> <<>>]
    /\ containerId = [p \in Projects |-> -1]
    /\ objects = [p \in Projects |-> FALSE]
    /\ dpc = [p \in Projects |-> "idle"]
    /\ cleanupResult = [p \in Projects |-> "none"]
    /\ delFault = [p \in Projects |-> FALSE]
    /\ cleanupCalls = [p \in Projects |-> 0]
    /\ wpc = "idle"
    /\ wclock = 0
    /\ polls = 0
    /\ wresult = "pending"
    /\ lastInfo = "none"
    /\ sawFatal = FALSE
    /\ bucket = {}
    /\ upc = "idle"
    /\ inFlight = {}
    /\ emitted = [r \in 1..n |-> 0]
    /\ published = {}
    /\ spc = "idle"
    /\ stopArg = -1
    /\ sfault = FALSE
    /\ fpc = "idle"
    /\ ftarget = 0
    /\ flisted = {}

\* the same, project 1 being a server application and project 2 either
InitProcess(n, seeds) ==
    /\ buildType \in {[p \in Projects |-> IF p = 1 THEN "server" ELSE t] : t \in {"static", "server"}}
    /\ InitState(n, seeds)

\* the same, the projects of the store having been created
InitRuns(n, seeds) ==
    /\ InitProcess(n, seeds)
    /\ exists = [p \in Projects |-> TRUE]
    /\ storedSubDomain = [p \in Projects |-> SeedSubDomain(p)]
    /\ name = [p \in Projects |-> p]
    /\ distFiles = {}

Init == InitRuns(MaxRuns, {"fresh", "deployed"})

\* -------------------------------------------------------- orchestrator

Set(f, r, v) == [f EXCEPT ![r] = v]

\* A rejection inside deploy()'s try block: the inner handlers log and
\* rethrow it, control enters deploy()'s catch block, which calls
\* updateProjectStatus(project._id, 'failed') and awaits it.
Throw(r) ==
    /\ pc' = Set(pc, r, "catch")
    /\ failed' = Set(failed, r, TRUE)

\* Project.findByIdAndUpdate(projectId, { status }): an update of a record
\* that is gone matches nothing and is no error
WriteStatus(r, st) ==
    /\ status' = IF exists[ProjectOf(r)] THEN Set(status, ProjectOf(r), st) ELSE status
    /\ statusWrites' = Set(statusWrites, r, Append(statusWrites[r], st))

\* no current deployment: the path is absent from the document
NoDeployment == [set |-> FALSE, version |-> -1, s3Path |-> FALSE, containerId |-> -1]

\* emitLog -> saveLogToDatabase: $push to 'currentDeployment.logs' creates
\* the currentDeployment subdocument when the record has none
SaveLog(p) ==
    IF exists[p] /\ ~currentDeployment[p].set
    THEN Set(currentDeployment, p, [NoDeployment EXCEPT !.set = TRUE])
    ELSE currentDeployment

\* whether the trigger starts a run for project p: deployProject checks
\* only that the project exists
DeployAccepted(p) == p \in Projects /\ exists[p]

\* POST /:id/deploy: the project is looked up and deploy(project) is called
\* without await; deploy() runs up to its first await.
deployProject(p) ==
    /\ DeployAccepted(p)
    /\ \E r \in Runs :
        /\ proj[r] = 0
        /\ \A q \in Runs : q < r => proj[q] # 0
        /\ proj' = Set(proj, r, p)
        /\ pc' = Set(pc, r, "setDeploying")
    /\ UNCHANGED <<storeVars, failed, result, statusWrites, catchLogged, cleanupTried,
                   fsVars, dockerVars, nginxVars, s3Vars, teardownVars>>

\* what a step of deploy() that only writes the project status leaves alone
StatusFrame == UNCHANGED <<buildType, storeRest, proj, result, catchLogged, cleanupTried,
                           fsVars, dockerVars, nginxVars, s3Vars, teardownVars>>

\* await this.updateProjectStatus(project._id, 'deploying')
SetDeploying(r) ==
    /\ pc[r] = "setDeploying"
    /\ \E ok \in BOOLEAN :
        IF ok
        THEN /\ WriteStatus(r, "deploying")
             /\ currentDeployment' = SaveLog(ProjectOf(r))
             /\ pc' = Set(pc, r, "clone")
             /\ UNCHANGED failed
        ELSE /\ Throw(r)
             /\ UNCHANGED <<status, statusWrites, currentDeployment>>
    /\ StatusFrame

\* a deploy() that runs the install and build commands for every project
AfterClone_AlwaysInstall(r) == "npmInstall"

\* the stage deploy() enters after the clone: project.buildType || 'static'
AfterClone(r) == IF buildType[ProjectOf(r)] = "static" THEN "npmInstall" ELSE "ensureDockerfile"

\* await git.clone(repoUrl, targetPath): git refuses an existing directory
cloneRepository(r) ==
    /\ pc[r] = "clone"
    /\ \E ok \in BOOLEAN :
        IF ok
        THEN /\ ~WorkspaceExists(r)
             /\ workspace' = workspace \cup {projectPath(r)}
             /\ pc' = Set(pc, r, AfterClone(r))
             /\ UNCHANGED failed
        ELSE /\ Throw(r)
             /\ UNCHANGED workspace
    /\ UNCHANGED <<storeVars, proj, result, statusWrites, catchLogged, cleanupTried,
                   dockerVars, nginxVars, s3Vars, teardownVars>>

\* A stage that only reads or writes the run's workspace: it succeeds only
\* while the workspace exists.
LocalStage(r, at, next) ==
    /\ pc[r] = at
    /\ \E ok \in BOOLEAN :
        IF ok
        THEN /\ WorkspaceExists(r)
             /\ pc' = Set(pc, r, next)
             /\ UNCHANGED failed
        ELSE Throw(r)
    /\ UNCHANGED <<storeVars, proj, result, statusWrites, catchLogged, cleanupTried,
                   fsVars, dockerVars, nginxVars, s3Vars, teardownVars>>

\* buildStaticProject: await execAsync('npm install', { cwd })
npmInstall(r) == LocalStage(r, "npmInstall", "buildCommand")

\* buildStaticProject: await execAsync(buildCommand, { cwd })
buildCommand(r) == LocalStage(r, "buildCommand", "access")

\* deployStatic: await fs.access(distPath)
accessPublishDir(r) == LocalStage(r, "access", "upload")

\* deployStatic: await s3Service.uploadStaticSite(distPath, s3Path), with
\* s3Path = `projects/${project.subDomain}`
uploadStaticSite(r) ==
    /\ pc[r] = "upload"
    /\ \E ok \in BOOLEAN :
        IF ok
        THEN /\ WorkspaceExists(r)
             /\ objects' = Set(objects, ProjectOf(r), TRUE)
             /\ pc' = Set(pc, r, "persist")
             /\ UNCHANGED failed
        ELSE /\ Throw(r)
             /\ UNCHANGED objects
    /\ UNCHANGED <<storeVars, proj, result, statusWrites, catchLogged, cleanupTried,
                   fsVars, dockerVars, nginxVars, teardownVars>>

\* the paths of projectSchema; mongoose (strict) drops from an update every
\* path the schema does not declare
ProjectPaths ==
    {"name", "description", "githubRepo", "subDomain", "buildConfig", "owner", "status",
     "currentDeployment", "deployments", "deployUrl", "buildType"}

\* the value of a path after an update that sets it to `new`
Persisted(path, new, old) == IF path \in ProjectPaths THEN new ELSE old

\* the deploymentData deploy() hands to updateProjectDeployment: s3Path in
\* static mode, containerId (result.containerId) in server mode
DeploymentData(r) ==
    [set |-> TRUE, version |-> r,
     s3Path |-> buildType[ProjectOf(r)] = "static",
     containerId |-> IF buildType[ProjectOf(r)] = "static" THEN -1 ELSE r]

\* the deployments list after updateProjectDeployment: updateData carries
\* status, deployUrl, buildType, currentDeployment, s3Path and containerId,
\* and nothing for deployments
HistoryAfter(history, prior) == history

\* await this.updateProjectDeployment(project._id, { status: 'running', ... }):
\* the update carries status: deploymentData.status, replaces
\* currentDeployment and sets the top-level containerId
updateProjectDeployment(r) ==
    /\ pc[r] = "persist"
    /\ \E ok \in BOOLEAN :
        IF ok
        THEN /\ WriteStatus(r, "running")
             /\ IF exists[ProjectOf(r)]
                THEN /\ currentDeployment' = Set(currentDeployment, ProjectOf(r), DeploymentData(r))
                     /\ deployments' = Set(deployments, ProjectOf(r),
                                           HistoryAfter(deployments[ProjectOf(r)],
                                                        currentDeployment[ProjectOf(r)]))
                     /\ containerId' = Set(containerId, ProjectOf(r),
                                           Persisted("containerId", DeploymentData(r).containerId,
                                                     containerId[ProjectOf(r)]))
                ELSE UNCHANGED <<currentDeployment, deployments, containerId>>
             /\ pc' = Set(pc, r, "setRunning")
             /\ UNCHANGED failed
        ELSE /\ Throw(r)
             /\ UNCHANGED <<status, statusWrites, currentDeployment, deployments, containerId>>
    /\ UNCHANGED <<buildType, exists, storedSubDomain, proj, result, catchLogged, cleanupTried,
                   fsVars, dockerVars, nginxVars, s3Vars, teardownVars>>

\* await this.updateProjectStatus(project._id, 'running'), the last
\* statement of the try block
SetRunning(r) ==
    /\ pc[r] = "setRunning"
    /\ \E ok \in BOOLEAN :
        IF ok
        THEN /\ WriteStatus(r, "running")
             /\ pc' = Set(pc, r, "finally")
             /\ UNCHANGED failed
        ELSE /\ Throw(r)
             /\ UNCHANGED <<status, statusWrites>>
    /\ UNCHANGED currentDeployment
    /\ StatusFrame

\* a deploy() that calls cleanupTemp after the try/catch, not in a finally
AfterCatch_NoFinally(ok) == IF ok THEN "finally" ELSE "done"

\* where control goes when the catch block completes (ok) or itself throws:
\* the finally block runs in both cases
AfterCatch(ok) == "finally"

\* catch (error): await this.updateProjectStatus(project._id, 'failed'), then
\* emitLog(project._id, 'error', `Deployment failed: ...`).  A rejection of
\* the status update leaves the catch block before the log is emitted.
Catch(r) ==
    /\ pc[r] = "catch"
    /\ \E ok \in BOOLEAN :
        /\ pc' = Set(pc, r, AfterCatch(ok))
        /\ IF ok
           THEN /\ WriteStatus(r, "failed")
                /\ catchLogged' = Set(catchLogged, r, TRUE)
                /\ currentDeployment' = SaveLog(ProjectOf(r))
                /\ UNCHANGED result
           ELSE /\ result' = Set(result, r, "throwing")
                /\ UNCHANGED <<status, statusWrites, catchLogged, currentDeployment>>
    /\ UNCHANGED <<buildType, storeRest, proj, failed, cleanupTried, fsVars, dockerVars, nginxVars, s3Vars, teardownVars>>

\* how the promise of deploy() settles once the finally block is done
Settle(r) == IF result[r] = "throwing" THEN "rejected" ELSE "resolved"

\* finally: await this.cleanupTemp(projectPath), which swallows the error
\* of fs.rm(projectPath, { recursive: true, force: true })
cleanupTemp(r) ==
    /\ pc[r] = "finally"
    /\ cleanupTried' = Set(cleanupTried, r, TRUE)
    /\ \E ok \in BOOLEAN :
        workspace' = IF ok THEN workspace \ {projectPath(r)} ELSE workspace
    /\ pc' = Set(pc, r, "done")
    /\ result' = Set(result, r, Settle(r))
    /\ UNCHANGED <<storeVars, proj, failed, statusWrites, catchLogged, dockerVars, nginxVars, s3Vars, teardownVars>>

\* ------------------------------------------------ container runtime driver

\* what every driver step leaves alone
DriverFrame == UNCHANGED <<storeVars, proj, result, statusWrites, catchLogged, cleanupTried,
                           fsVars, nginxVars, s3Vars, teardownVars>>

\* buildAndDeploy: await this.ensureDockerfile(projectPath, projectId); a
\* rejection is logged by buildAndDeploy's catch and rethrown
ensureDockerfile(r) == LocalStage(r, "ensureDockerfile", "buildImage")

\* where buildAndDeploy continues when the promise of buildImage resolves:
\* stream.on('end', ...) resolves it whatever records the output carried
AfterBuild(out) == "stopList"

\* buildAndDeploy: await this.buildImage(...).  The promise resolves on the
\* stream's 'end' event, also when the output carried an error record, and
\* rejects on the callback error or the stream's 'error' event.
buildImage(r) ==
    /\ pc[r] = "buildImage"
    /\ \E out \in {"built", "errorRecord", "rejected"} :
        CASE out = "built" ->
                /\ WorkspaceExists(r)
                /\ image' = Set(image, ProjectOf(r), TRUE)
                /\ built' = Set(built, r, out)
                /\ pc' = Set(pc, r, AfterBuild(out))
                /\ UNCHANGED failed
          [] out = "errorRecord" ->
                /\ built' = Set(built, r, out)
                /\ pc' = Set(pc, r, AfterBuild(out))
                /\ UNCHANGED <<failed, image>>
          [] out = "rejected" ->
                /\ built' = Set(built, r, out)
                /\ Throw(r)
                /\ UNCHANGED image
    /\ UNCHANGED <<containers, portCounter, listed, hostPort, overlapped, existing>>
    /\ DriverFrame

\* stopExistingContainer: await this.docker.listContainers({ all: true }) and
\* the find by name; errors are logged, never thrown
stopExistingList(r) ==
    /\ pc[r] = "stopList"
    /\ \E ok \in BOOLEAN :
        IF ok /\ NamedFor(ProjectOf(r)) # {}
        THEN \E c \in NamedFor(ProjectOf(r)) :
                /\ existing' = Set(existing, r, c.id)
                /\ pc' = Set(pc, r, IF c.state = "running" THEN "stopStop" ELSE "stopRemove")
        ELSE /\ pc' = Set(pc, r, "gnapList")
             /\ UNCHANGED existing
    /\ UNCHANGED <<failed, containers, portCounter, listed, hostPort, overlapped, image, built>>
    /\ DriverFrame

\* stopExistingContainer: await container.stop({ t: 10 }); when it rejects
\* the catch is entered and the removal is skipped
stopExistingStop(r) ==
    /\ pc[r] = "stopStop"
    /\ \E ok \in BOOLEAN :
        IF ok
        THEN \E c \in ContainerById(existing[r]) :
                /\ c.state = "running"
                /\ containers' = (containers \ {c}) \cup {[c EXCEPT !.state = "exited"]}
                /\ pc' = Set(pc, r, "stopRemove")
                /\ UNCHANGED existing
        ELSE /\ pc' = Set(pc, r, "gnapList")
             /\ existing' = Set(existing, r, -1)
             /\ UNCHANGED containers
    /\ UNCHANGED <<failed, portCounter, listed, hostPort, overlapped, image, built>>
    /\ DriverFrame

\* stopExistingContainer: await container.remove({ force: true })
stopExistingRemove(r) ==
    /\ pc[r] = "stopRemove"
    /\ \E ok \in BOOLEAN :
        IF ok
        THEN \E c \in ContainerById(existing[r]) : containers' = containers \ {c}
        ELSE UNCHANGED containers
    /\ pc' = Set(pc, r, "gnapList")
    /\ existing' = Set(existing, r, -1)
    /\ UNCHANGED <<failed, portCounter, listed, hostPort, overlapped, image, built>>
    /\ DriverFrame

\* getNextAvailablePort: await this.docker.listContainers({ all: true }); the
\* daemon answers with the containers it has at this moment, or fails
getNextAvailablePortList(r) ==
    /\ pc[r] = "gnapList"
    /\ \E ok \in BOOLEAN :
        listed' = Set(listed, r, [ok |-> ok, used |-> IF ok THEN UsedPorts(containers) ELSE {}])
    /\ overlapped' = (overlapped \/ \E q \in Runs : q # r /\ pc[q] = "gnapResume")
    /\ pc' = Set(pc, r, "gnapResume")
    /\ UNCHANGED <<failed, containers, portCounter, hostPort, existing, image, built>>
    /\ DriverFrame

\* the port getNextAvailablePort returns when its continuation runs
AllocatedPort(r) ==
    IF listed[r].ok THEN NormalPort(listed[r].used, portCounter)
                    ELSE FallbackPort(portCounter)

\* getNextAvailablePort: the continuation of the listing runs without
\* suspension: skip the used ports, return the counter and increment it.
\* runContainer then calls createContainer.
getNextAvailablePortResume(r) ==
    /\ pc[r] = "gnapResume"
    /\ hostPort' = Set(hostPort, r, AllocatedPort(r))
    /\ portCounter' = CounterAfter(AllocatedPort(r))
    /\ listed' = Set(listed, r, [ok |-> listed[r].ok, used |-> {}])
    /\ pc' = Set(pc, r, "create")
    /\ UNCHANGED <<failed, containers, overlapped, existing, image, built>>
    /\ DriverFrame

\* the container runContainer asks the daemon to create
NewContainer(r) ==
    [id |-> r, name |-> ProjectOf(r), label |-> hostPort[r], bound |-> hostPort[r],
     state |-> "created"]

\* runContainer: await this.docker.createContainer(containerConfig)
createContainer(r) ==
    /\ pc[r] = "create"
    /\ \E ok \in BOOLEAN :
        IF ok
        THEN /\ NameFree(ProjectOf(r))
             /\ image[ProjectOf(r)]
             /\ containers' = containers \cup {NewContainer(r)}
             /\ pc' = Set(pc, r, "start")
             /\ UNCHANGED failed
        ELSE /\ Throw(r)
             /\ UNCHANGED containers
    /\ UNCHANGED <<portCounter, listed, hostPort, overlapped, existing, image, built>>
    /\ DriverFrame

\* runContainer: await container.start()
startContainer(r) ==
    /\ pc[r] = "start"
    /\ \E ok \in BOOLEAN :
        IF ok
        THEN \E c \in ContainerById(r) :
                /\ PortFree(c.bound)
                /\ containers' = (containers \ {c}) \cup {[c EXCEPT !.state = "running"]}
                /\ pc' = Set(pc, r, "ready")
                /\ UNCHANGED failed
        ELSE /\ Throw(r)
             /\ UNCHANGED containers
    /\ UNCHANGED <<portCounter, listed, hostPort, overlapped, existing, image, built>>
    /\ DriverFrame

\* runContainer: await this.waitForReadiness(container, projectId).  It
\* returns when the container is observed running (and healthy, if it has a
\* probe); it throws when the container is observed exited or unhealthy, or
\* when the maximum wait has elapsed.  buildAndDeploy then returns to
\* deployServer, which calls configureNginx.
waitForReadiness(r) ==
    /\ pc[r] = "ready"
    /\ \E out \in {"ready", "exited", "notReady"} :
        CASE out = "ready" ->
                /\ \E c \in ContainerById(r) : c.state = "running"
                /\ pc' = Set(pc, r, "nginxWrite")
                /\ UNCHANGED <<failed, containers>>
          [] out = "exited" ->
                /\ \E c \in ContainerById(r) :
                    containers' = (containers \ {c}) \cup {[c EXCEPT !.state = "exited"]}
                /\ Throw(r)
          [] out = "notReady" ->
                /\ Throw(r)
                /\ UNCHANGED containers
    /\ UNCHANGED <<portCounter, listed, hostPort, overlapped, existing, image, built>>
    /\ DriverFrame

\* ------------------------------------------------ reverse proxy configurator

ProxyFrame == UNCHANGED <<storeVars, proj, result, statusWrites, catchLogged, cleanupTried,
                          fsVars, dockerVars, ruleOk, s3Vars, teardownVars>>

\* configureNginx: await fs.writeFile(tmpPath, nginxConfig, { mode: 0o644 })
nginxWrite(r) ==
    /\ pc[r] = "nginxWrite"
    /\ \E ok \in BOOLEAN :
        IF ok
        THEN /\ tmpConf' = Set(tmpConf, subDomain(r), hostPort[r])
             /\ pc' = Set(pc, r, "nginxMv")
             /\ UNCHANGED failed
        ELSE /\ Throw(r)
             /\ UNCHANGED tmpConf
    /\ UNCHANGED <<sitesAvailable, sitesEnabled, loaded>>
    /\ ProxyFrame

\* configureNginx: await execAsync(`sudo mv ${tmpPath} ${availPath}`)
nginxMv(r) ==
    /\ pc[r] = "nginxMv"
    /\ \E ok \in BOOLEAN :
        IF ok
        THEN /\ tmpConf[subDomain(r)] # 0
             /\ sitesAvailable' = Set(sitesAvailable, subDomain(r), tmpConf[subDomain(r)])
             /\ tmpConf' = Set(tmpConf, subDomain(r), 0)
             /\ pc' = Set(pc, r, "nginxLn")
             /\ UNCHANGED failed
        ELSE /\ Throw(r)
             /\ UNCHANGED <<tmpConf, sitesAvailable>>
    /\ UNCHANGED <<sitesEnabled, loaded>>
    /\ ProxyFrame

\* configureNginx: await execAsync(`sudo ln -sf ${availPath} ${enabledPath}`)
nginxLn(r) ==
    /\ pc[r] = "nginxLn"
    /\ \E ok \in BOOLEAN :
        IF ok
        THEN /\ sitesEnabled' = Set(sitesEnabled, subDomain(r), TRUE)
             /\ pc' = Set(pc, r, "nginxTest")
             /\ UNCHANGED failed
        ELSE /\ Throw(r)
             /\ UNCHANGED sitesEnabled
    /\ UNCHANGED <<tmpConf, sitesAvailable, loaded>>
    /\ ProxyFrame

\* configureNginx: await execAsync('sudo nginx -t'); nothing is undone when
\* the command fails
nginxTest(r) ==
    /\ pc[r] = "nginxTest"
    /\ IF ConfigValid
       THEN /\ pc' = Set(pc, r, "nginxReload")
            /\ UNCHANGED failed
       ELSE Throw(r)
    /\ UNCHANGED <<tmpConf, sitesAvailable, sitesEnabled, loaded>>
    /\ ProxyFrame

\* configureNginx: await execAsync('sudo systemctl reload nginx'); nginx
\* keeps the rules it serves when the configuration it is given is invalid.
\* deployServer then returns and deploy() calls updateProjectDeployment.
nginxReload(r) ==
    /\ pc[r] = "nginxReload"
    /\ IF ConfigValid
       THEN /\ loaded' = EnabledConfig
            /\ pc' = Set(pc, r, "persist")
            /\ UNCHANGED failed
       ELSE /\ Throw(r)
            /\ UNCHANGED loaded
    /\ UNCHANGED <<tmpConf, sitesAvailable, sitesEnabled>>
    /\ ProxyFrame

\* ------------------------------------------------------------- behaviour

Next ==
    \/ \E p \in Projects : deployProject(p) /\ Elsewhere
    \/ \E r \in Runs : SetDeploying(r) /\ Elsewhere
    \/ \E r \in Runs : cloneRepository(r) /\ Elsewhere
    \/ \E r \in Runs : npmInstall(r) /\ Elsewhere
    \/ \E r \in Runs : buildCommand(r) /\ Elsewhere
    \/ \E r \in Runs : accessPublishDir(r) /\ Elsewhere
    \/ \E r \in Runs : uploadStaticSite(r) /\ Elsewhere
    \/ \E r \in Runs : ensureDockerfile(r) /\ Elsewhere
    \/ \E r \in Runs : buildImage(r) /\ Elsewhere
    \/ \E r \in Runs : stopExistingList(r) /\ Elsewhere
    \/ \E r \in Runs : stopExistingStop(r) /\ Elsewhere
    \/ \E r \in Runs : stopExistingRemove(r) /\ Elsewhere
    \/ \E r \in Runs : getNextAvailablePortList(r) /\ Elsewhere
    \/ \E r \in Runs : getNextAvailablePortResume(r) /\ Elsewhere
    \/ \E r \in Runs : createContainer(r) /\ Elsewhere
    \/ \E r \in Runs : startContainer(r) /\ Elsewhere
    \/ \E r \in Runs : waitForReadiness(r) /\ Elsewhere
    \/ \E r \in Runs : nginxWrite(r) /\ Elsewhere
    \/ \E r \in Runs : nginxMv(r) /\ Elsewhere
    \/ \E r \in Runs : nginxLn(r) /\ Elsewhere
    \/ \E r \in Runs : nginxTest(r) /\ Elsewhere
    \/ \E r \in Runs : nginxReload(r) /\ Elsewhere
    \/ \E r \in Runs : updateProjectDeployment(r) /\ Elsewhere
    \/ \E r \in Runs : SetRunning(r) /\ Elsewhere
    \/ \E r \in Runs : Catch(r) /\ Elsewhere
    \/ \E r \in Runs : cleanupTemp(r) /\ Elsewhere

\* the whole pipeline, with MaxRuns deploy requests that may overlap
Spec == Init /\ [][Next]_vars

InitSolo == InitRuns(MaxSolo, {"fresh", "deployed"})

\* the whole pipeline, with MaxSolo deploy requests
SpecSolo == InitSolo /\ [][Next]_vars

\* The awaits of a run that settle in bounded time: the calls to the store,
\* to the file system, to the docker daemon and to nginx, git clone, and the
\* readiness wait, which has its own timeout.  The three awaits left out run
\* commands of the deployed repository: execAsync('npm install', { cwd }),
\* execAsync(buildCommand, { cwd }) and the image build behind
\* docker.buildImage(tarStream, { t }); none is given a timeout, a kill
\* signal or a timer, so nothing in the code makes them settle.
Settling(r) ==
    \/ SetDeploying(r)
    \/ cloneRepository(r)
    \/ accessPublishDir(r)
    \/ uploadStaticSite(r)
    \/ ensureDockerfile(r)
    \/ stopExistingList(r)
    \/ stopExistingStop(r)
    \/ stopExistingRemove(r)
    \/ getNextAvailablePortList(r)
    \/ getNextAvailablePortResume(r)
    \/ createContainer(r)
    \/ startContainer(r)
    \/ waitForReadiness(r)
    \/ nginxWrite(r)
    \/ nginxMv(r)
    \/ nginxLn(r)
    \/ nginxTest(r)
    \/ nginxReload(r)
    \/ updateProjectDeployment(r)
    \/ SetRunning(r)
    \/ Catch(r)
    \/ cleanupTemp(r)

\* the whole pipeline, with MaxSolo deploy requests, every await that is
\* bound to settle settling eventually
SpecLive == InitSolo /\ [][Next]_vars /\ \A r \in 1..MaxSolo : WF_vars(Settling(r) /\ Elsewhere)

\* ---------------------------------------------- the driver on its own

\* deployServer: await dockerService.buildAndDeploy(projectPath, projectId,
\* envVars), called on the cloned workspace of a server project
callBuildAndDeploy(p) ==
    /\ buildType[p] = "server"
    /\ \E r \in Runs :
        /\ proj[r] = 0
        /\ \A q \in Runs : q < r => proj[q] # 0
        /\ proj' = Set(proj, r, p)
        /\ pc' = Set(pc, r, "ensureDockerfile")
    /\ workspace' = workspace \cup {name[p]}
    /\ UNCHANGED <<storeVars, failed, result, statusWrites, catchLogged, cleanupTried,
                   dockerVars, nginxVars, s3Vars, teardownVars>>

InitDriver ==
    /\ InitRuns(MaxCalls, {"fresh", "deployed"})
    /\ buildType = [p \in Projects |-> "server"]
    /\ ruleOk = [p \in Projects |-> TRUE]

NextDriver ==
    \/ \E p \in Projects : callBuildAndDeploy(p) /\ Elsewhere
    \/ \E r \in Runs : ensureDockerfile(r) /\ Elsewhere
    \/ \E r \in Runs : buildImage(r) /\ Elsewhere
    \/ \E r \in Runs : stopExistingList(r) /\ Elsewhere
    \/ \E r \in Runs : stopExistingStop(r) /\ Elsewhere
    \/ \E r \in Runs : stopExistingRemove(r) /\ Elsewhere
    \/ \E r \in Runs : getNextAvailablePortList(r) /\ Elsewhere
    \/ \E r \in Runs : getNextAvailablePortResume(r) /\ Elsewhere
    \/ \E r \in Runs : createContainer(r) /\ Elsewhere
    \/ \E r \in Runs : startContainer(r) /\ Elsewhere
    \/ \E r \in Runs : waitForReadiness(r) /\ Elsewhere

\* concurrent calls of buildAndDeploy against one container runtime
SpecDriver == InitDriver /\ [][NextDriver]_vars

\* ------------------------------------------ the port allocator on its own

\* buildAndDeploy: await this.runContainer({ imageName, projectId, envVars }),
\* called once the image is built; runContainer calls getNextAvailablePort
callRunContainer(p) ==
    /\ buildType[p] = "server"
    /\ \E r \in Runs :
        /\ proj[r] = 0
        /\ \A q \in Runs : q < r => proj[q] # 0
        /\ proj' = Set(proj, r, p)
        /\ pc' = Set(pc, r, "gnapList")
    /\ image' = Set(image, p, TRUE)
    /\ UNCHANGED <<storeVars, failed, result, statusWrites, catchLogged, cleanupTried,
                   fsVars, containers, portCounter, listed, hostPort, overlapped, existing,
                   built, nginxVars, s3Vars, teardownVars>>

\* a container this service does not manage starts and binds a free host
\* port ("host bindings that might not have our label")
externalContainer(port) ==
    /\ \A c \in containers : c.name # 0
    /\ PortFree(port)
    /\ containers' = containers \cup {[SeedExternal EXCEPT !.bound = port]}
    /\ UNCHANGED <<storeVars, runVars, fsVars, portCounter, listed, hostPort, overlapped,
                   existing, image, built, nginxVars, s3Vars, teardownVars>>

InitPort ==
    /\ InitRuns(MaxCalls, {"fresh", "deployed", "external"})
    /\ buildType = [p \in Projects |-> "server"]
    /\ ruleOk = [p \in Projects |-> TRUE]

NextPort ==
    \/ \E p \in Projects : callRunContainer(p) /\ Elsewhere
    \/ \E r \in Runs : getNextAvailablePortList(r) /\ Elsewhere
    \/ \E r \in Runs : getNextAvailablePortResume(r) /\ Elsewhere
    \/ \E r \in Runs : createContainer(r) /\ Elsewhere
    \/ \E r \in Runs : startContainer(r) /\ Elsewhere
    \/ \E r \in Runs : waitForReadiness(r) /\ Elsewhere
    \/ \E port \in {BasePort, BasePort + 1} : externalContainer(port) /\ Elsewhere

\* concurrent calls of runContainer, and with it of getNextAvailablePort
SpecPort == InitPort /\ [][NextPort]_vars

\* ------------------------------------- repeated deploys of one server app

InitRedeploy ==
    /\ InitRuns(MaxRedeploys, {"fresh"})
    /\ buildType = [p \in Projects |-> "server"]
    /\ ruleOk = [p \in Projects |-> TRUE]

NextRedeploy ==
    \/ deployProject(1) /\ Elsewhere
    \/ \E r \in Runs : SetDeploying(r) /\ Elsewhere
    \/ \E r \in Runs : cloneRepository(r) /\ Elsewhere
    \/ \E r \in Runs : ensureDockerfile(r) /\ Elsewhere
    \/ \E r \in Runs : buildImage(r) /\ Elsewhere
    \/ \E r \in Runs : stopExistingList(r) /\ Elsewhere
    \/ \E r \in Runs : stopExistingStop(r) /\ Elsewhere
    \/ \E r \in Runs : stopExistingRemove(r) /\ Elsewhere
    \/ \E r \in Runs : getNextAvailablePortList(r) /\ Elsewhere
    \/ \E r \in Runs : getNextAvailablePortResume(r) /\ Elsewhere
    \/ \E r \in Runs : createContainer(r) /\ Elsewhere
    \/ \E r \in Runs : startContainer(r) /\ Elsewhere
    \/ \E r \in Runs : waitForReadiness(r) /\ Elsewhere
    \/ \E r \in Runs : nginxWrite(r) /\ Elsewhere
    \/ \E r \in Runs : nginxMv(r) /\ Elsewhere
    \/ \E r \in Runs : nginxLn(r) /\ Elsewhere
    \/ \E r \in Runs : nginxTest(r) /\ Elsewhere
    \/ \E r \in Runs : nginxReload(r) /\ Elsewhere
    \/ \E r \in Runs : updateProjectDeployment(r) /\ Elsewhere
    \/ \E r \in Runs : SetRunning(r) /\ Elsewhere
    \/ \E r \in Runs : Catch(r) /\ Elsewhere
    \/ \E r \in Runs : cleanupTemp(r) /\ Elsewhere

\* MaxRedeploys deploy requests for the server app project 1, which may overlap
SpecRedeploy == InitRedeploy /\ [][NextRedeploy]_vars

\* ------------------------------------------------------ project deletion

\* what the teardown leaves alone in every step
TeardownFrame == UNCHANGED <<status, buildType, currentDeployment, deployments, containerId,
                             storedSubDomain, runVars, fsVars, portCounter, listed, hostPort,
                             overlapped, existing, image, built, nginxVars>>

\* cleanup(project) has settled
CleanupSettles(p, how) ==
    /\ dpc' = Set(dpc, p, "done")
    /\ cleanupResult' = Set(cleanupResult, p, how)

\* cleanup(project) from its call to its first await.  `project` is the
\* document findOneAndDelete returned; updates of a deleted record match
\* nothing, so the record fields still hold that document.  Reading
\* project.currentDeployment.s3Path throws a TypeError when the document has
\* no currentDeployment.
CleanupEntry(p) ==
    CASE buildType[p] = "static" /\ ~currentDeployment[p].set ->
            CleanupSettles(p, "raised")
      [] buildType[p] = "static" /\ currentDeployment[p].set /\ currentDeployment[p].s3Path ->
            /\ dpc' = Set(dpc, p, "s3List")
            /\ cleanupResult' = Set(cleanupResult, p, "pending")
      [] buildType[p] = "server" /\ containerId[p] # -1 ->
            /\ dpc' = Set(dpc, p, "ctStop")
            /\ cleanupResult' = Set(cleanupResult, p, "pending")
      [] OTHER ->
            CleanupSettles(p, "returned")

\* DELETE /:id: await Project.findOneAndDelete(...) removes the record, then
\* await deploymentService.cleanup(project) is called.  (When the store
\* rejects, or the record is not found, nothing changes.)
deleteProject(p) ==
    /\ exists[p]
    /\ dpc[p] = "idle"
    /\ exists' = Set(exists, p, FALSE)
    /\ cleanupCalls' = Set(cleanupCalls, p, 1)
    /\ CleanupEntry(p)
    /\ UNCHANGED <<containers, objects, delFault>>
    /\ TeardownFrame

\* a further call of cleanup(project) with the document of a deleted project
callCleanup(p) ==
    /\ ~exists[p]
    /\ dpc[p] = "done"
    /\ cleanupCalls[p] < MaxCleanups
    /\ cleanupCalls' = Set(cleanupCalls, p, cleanupCalls[p] + 1)
    /\ CleanupEntry(p)
    /\ UNCHANGED <<exists, containers, objects, delFault>>
    /\ TeardownFrame

\* the awaits of cleanup(project).
\* s3Service.deleteFiles: ListObjectsV2 under the prefix, then DeleteObjects
\* when Contents is not empty; every error is caught and logged.
\* dockerService.stopContainer: container.stop({ t: 10 }), then
\* container.remove({ force: true }); every error is caught and logged, and
\* an error of stop (also: no such container, container not running) skips
\* the removal.
cleanupStep(p) ==
    /\ dpc[p] \in {"s3List", "s3Delete", "ctStop", "ctRemove"}
    /\ \E ok \in BOOLEAN :
        CASE dpc[p] = "s3List" ->
                /\ IF ok /\ objects[p]
                   THEN dpc' = Set(dpc, p, "s3Delete") /\ UNCHANGED cleanupResult
                   ELSE CleanupSettles(p, "returned")
                /\ delFault' = Set(delFault, p, delFault[p] \/ ~ok)
                /\ UNCHANGED <<objects, containers>>
          [] dpc[p] = "s3Delete" ->
                /\ objects' = Set(objects, p, objects[p] /\ ~ok)
                /\ delFault' = Set(delFault, p, delFault[p] \/ ~ok)
                /\ CleanupSettles(p, "returned")
                /\ UNCHANGED containers
          [] dpc[p] = "ctStop" ->
                /\ IF ok /\ \E c \in ContainerById(containerId[p]) : c.state = "running"
                   THEN /\ containers' = {IF c.id = containerId[p]
                                            THEN [c EXCEPT !.state = "exited"] ELSE c :
                                            c \in containers}
                        /\ dpc' = Set(dpc, p, "ctRemove")
                        /\ UNCHANGED cleanupResult
                   ELSE /\ CleanupSettles(p, "returned")
                        /\ UNCHANGED containers
                /\ delFault' = Set(delFault, p, delFault[p] \/ ~ok)
                /\ UNCHANGED objects
          [] dpc[p] = "ctRemove" ->
                /\ containers' = IF ok THEN containers \ ContainerById(containerId[p])
                                        ELSE containers
                /\ delFault' = Set(delFault, p, delFault[p] \/ ~ok)
                /\ CleanupSettles(p, "returned")
                /\ UNCHANGED objects
    /\ UNCHANGED <<exists, cleanupCalls>>
    /\ TeardownFrame

InitTeardown == InitRuns(MaxSolo, {"fresh", "deployed"})

NextTeardown ==
    \/ Next
    \/ \E p \in Projects : deleteProject(p) /\ Elsewhere
    \/ \E p \in Projects : callCleanup(p) /\ Elsewhere
    \/ \E p \in Projects : cleanupStep(p) /\ Elsewhere

\* the pipeline with MaxSolo deploy requests, and deletions of projects
SpecTeardown == InitTeardown /\ [][NextTeardown]_vars

\* --------------------------------------------- subdomains of the store

\* the characters of the subdomains tried: a lowercase letter, an uppercase
\* letter, the hyphen, a character outside [a-z0-9-], and white space
Alphabet == {"a", "B", "-", "_", " "}

\* the subdomains a request may carry
SubDomainInputs == UNION {[1..n -> Alphabet] : n \in 0..MaxLen}

\* String.prototype.toLowerCase, on the alphabet
toLowerCase(str) == [i \in DOMAIN str |-> IF str[i] = "B" THEN "b" ELSE str[i]]

\* the character class [a-z0-9-], on the alphabet
InClass(c) == c \in {"a", "b", "-"}

\* this.subDomain.toLowerCase().replace(/[^a-z0-9-]/g, '')
Normalize(str) == SelectSeq(toLowerCase(str), InClass)

RECURSIVE TrimStart(_)
TrimStart(str) == IF str # <<>> /\ Head(str) = " " THEN TrimStart(Tail(str)) ELSE str

RECURSIVE TrimEnd(_)
TrimEnd(str) ==
    IF str # <<>> /\ str[Len(str)] = " " THEN TrimEnd(SubSeq(str, 1, Len(str) - 1)) ELSE str

\* the setter of subDomain: { type: String, unique: true, trim: true }
Trim(str) == TrimEnd(TrimStart(str))

\* the unique index on subDomain accepts value v for project p
UniqueFor(p, v) == \A q \in Projects : (q # p /\ exists[q]) => storedSubDomain[q] # v

SubdomainFrame == UNCHANGED <<status, buildType, currentDeployment, deployments, containerId,
                              runVars, fsVars, dockerVars, nginxVars, s3Vars, teardownVars>>

\* POST /: Project.findOne({ subDomain }) on the subdomain of the request,
\* then new Project({...}) and project.save(), whose pre('save') hook
\* normalizes the subdomain.  A taken subdomain answers 400, a duplicate
\* key 500; neither stores anything.
createProject(p, input) ==
    /\ ~exists[p]
    /\ dpc[p] = "idle"
    /\ UniqueFor(p, Trim(input))
    /\ UniqueFor(p, Normalize(Trim(input)))
    /\ exists' = Set(exists, p, TRUE)
    /\ storedSubDomain' = Set(storedSubDomain, p, Normalize(Trim(input)))
    /\ SubdomainFrame

\* PUT /:id: Project.findOneAndUpdate(..., { ..., subDomain, ... }, { new:
\* true, runValidators: true }): no document is saved, the pre('save') hook
\* does not run
updateProject(p, input) ==
    /\ exists[p]
    /\ UniqueFor(p, Trim(input))
    /\ storedSubDomain' = Set(storedSubDomain, p, Trim(input))
    /\ UNCHANGED exists
    /\ SubdomainFrame

InitSubdomain ==
    /\ InitProcess(MaxSolo, {"fresh"})
    /\ exists = [p \in Projects |-> FALSE]
    /\ storedSubDomain = [p \in Projects |-> <<>>]
    /\ name = [p \in Projects |-> p]
    /\ distFiles = {}

NextSubdomain ==
    \/ \E p \in Projects : \E input \in SubDomainInputs : createProject(p, input) /\ Elsewhere
    \/ \E p \in Projects : \E input \in SubDomainInputs : updateProject(p, input) /\ Elsewhere

\* creations and updates of projects
SpecSubdomain == InitSubdomain /\ [][NextSubdomain]_vars

\* ------------------------------------------------------------ log entries

\* the first argument of emitLog when it is project._id or projectId
IdKey(p) == <<"id", p>>

\* the first argument of emitLog when it is the subDomain
SubDomainKey(p) == <<"subDomain", p>>

\* n calls of emitLog(projectId, ...), or of emitBuildLog(projectId, ...),
\* which forwards to emitLog
ById(r, n) == [i \in 1..n |-> IdKey(ProjectOf(r))]

\* The calls of emitLog in one step of run r, in order, each by its first
\* argument: the step goes from the await at pc[r] to the await at pc'[r],
\* with the synchronous code between them.  Where the step can take several
\* ways to the same await, each way gives one sequence.
Emissions(r) ==
    LET from == pc[r]
        to == pc'[r]
        thrown == to = "catch"
    IN  CASE from = "setDeploying" -> {ById(r, IF thrown THEN 0 ELSE 2)}
          [] from = "clone" -> {ById(r, IF thrown THEN 0 ELSE 4)}
          [] from = "npmInstall" -> {ById(r, IF thrown THEN 0 ELSE 2)}
          [] from = "buildCommand" -> {ById(r, IF thrown THEN 0 ELSE 2)}
          [] from = "access" -> {ById(r, 0)}
          [] from = "upload" -> {ById(r, IF thrown THEN 0 ELSE 2)}
          [] from = "ensureDockerfile" -> {ById(r, 2)}
          [] from = "buildImage" -> {ById(r, IF built'[r] = "built" THEN 1 ELSE 2)}
          [] from = "stopList" -> IF to = "gnapList" THEN {ById(r, 0), ById(r, 1)}
                                                      ELSE {ById(r, 1)}
          [] from = "stopStop" -> {ById(r, IF to = "gnapList" THEN 1 ELSE 0)}
          [] from = "stopRemove" -> {ById(r, 1)}
          [] from = "gnapList" -> {ById(r, 0)}
          [] from = "gnapResume" -> {ById(r, 1)}
          [] from = "create" -> {ById(r, IF thrown THEN 1 ELSE 0)}
          [] from = "start" -> {ById(r, 1)}
          [] from = "ready" -> {ById(r, IF thrown THEN 1 ELSE 0)}
          [] from \in {"nginxWrite", "nginxMv", "nginxLn", "nginxTest"} ->
                {IF thrown THEN <<SubDomainKey(subDomain(r))>> ELSE <<>>}
          [] from = "nginxReload" ->
                {IF thrown THEN <<SubDomainKey(subDomain(r))>>
                           ELSE <<SubDomainKey(subDomain(r)), IdKey(ProjectOf(r))>>}
          [] from = "persist" -> {ById(r, IF thrown THEN 0 ELSE 1)}
          [] from = "catch" -> {ById(r, IF catchLogged'[r] THEN 1 ELSE 0)}
          [] OTHER -> {ById(r, 0)}

\* the step replaces currentDeployment: updateProjectDeployment sets it to
\* { ...deploymentData, version }, which carries no logs, so the stored
\* subdocument gets the default, an empty list
ReplacesDeployment(r) ==
    pc[r] = "persist" /\ pc'[r] = "setRunning" /\ exists[ProjectOf(r)]

\* emitLog, for every call of the step of run r: the entry is emitted to
\* the room project-{key} and saveLogToDatabase is called without await.
\* The saves of the steps before have settled by the time a step emits (the
\* awaits between two steps are long against one update of the store); the
\* saves of one step are in flight together.
Recorded(r) ==
    /\ \E keys \in Emissions(r) :
        LET new == {[key |-> keys[i], run |-> r, n |-> emitted[r] + i] : i \in DOMAIN keys}
        IN  /\ keys # <<>> => inFlight = {}
            /\ emitted' = Set(emitted, r, emitted[r] + Len(keys))
            /\ inFlight' = inFlight \cup new
            /\ published' = published \cup new
    /\ logs' = IF ReplacesDeployment(r) THEN Set(logs, ProjectOf(r), <<>>) ELSE logs
    /\ UNCHANGED <<name, readyVars, uploadVars, stopVars, deleteVars>>

\* saveLogToDatabase: await Project.findByIdAndUpdate(projectId, { $push:
\* { 'currentDeployment.logs': logData } }) settles, for any one of the
\* saves in flight: the store applies the updates in the order it gets to
\* them.  A key that is no id of a project matches no record (or fails the
\* cast to ObjectId); the error is caught and logged to the console.
saveLogToDatabase ==
    /\ \E m \in inFlight :
        /\ inFlight' = inFlight \ {m}
        /\ logs' = IF \E p \in Projects : m.key = IdKey(p) /\ exists[p]
                   THEN Set(logs, m.key[2], Append(logs[m.key[2]], [run |-> m.run, n |-> m.n]))
                   ELSE logs
    /\ UNCHANGED <<baseVars, name, readyVars, uploadVars, emitted, published, stopVars, deleteVars>>

\* GET /:id/logs: project.currentDeployment?.logs || []
getProjectLogs(p) == logs[p]

InitLog == InitRuns(MaxSolo, {"fresh", "deployed"})

NextLog ==
    \/ \E p \in Projects : deployProject(p) /\ Elsewhere
    \/ \E r \in Runs : SetDeploying(r) /\ Recorded(r)
    \/ \E r \in Runs : cloneRepository(r) /\ Recorded(r)
    \/ \E r \in Runs : npmInstall(r) /\ Recorded(r)
    \/ \E r \in Runs : buildCommand(r) /\ Recorded(r)
    \/ \E r \in Runs : accessPublishDir(r) /\ Recorded(r)
    \/ \E r \in Runs : uploadStaticSite(r) /\ Recorded(r)
    \/ \E r \in Runs : ensureDockerfile(r) /\ Recorded(r)
    \/ \E r \in Runs : buildImage(r) /\ Recorded(r)
    \/ \E r \in Runs : stopExistingList(r) /\ Recorded(r)
    \/ \E r \in Runs : stopExistingStop(r) /\ Recorded(r)
    \/ \E r \in Runs : stopExistingRemove(r) /\ Recorded(r)
    \/ \E r \in Runs : getNextAvailablePortList(r) /\ Recorded(r)
    \/ \E r \in Runs : getNextAvailablePortResume(r) /\ Recorded(r)
    \/ \E r \in Runs : createContainer(r) /\ Recorded(r)
    \/ \E r \in Runs : startContainer(r) /\ Recorded(r)
    \/ \E r \in Runs : waitForReadiness(r) /\ Recorded(r)
    \/ \E r \in Runs : nginxWrite(r) /\ Recorded(r)
    \/ \E r \in Runs : nginxMv(r) /\ Recorded(r)
    \/ \E r \in Runs : nginxLn(r) /\ Recorded(r)
    \/ \E r \in Runs : nginxTest(r) /\ Recorded(r)
    \/ \E r \in Runs : nginxReload(r) /\ Recorded(r)
    \/ \E r \in Runs : updateProjectDeployment(r) /\ Recorded(r)
    \/ \E r \in Runs : SetRunning(r) /\ Recorded(r)
    \/ \E r \in Runs : Catch(r) /\ Recorded(r)
    \/ \E r \in Runs : cleanupTemp(r) /\ Recorded(r)
    \/ saveLogToDatabase

\* the whole pipeline, with MaxSolo deploy requests, and the log entries of
\* the runs
SpecLog == InitLog /\ [][NextLog]_vars

\* --------------------------------------------- projects and their names

\* the names projects can be given: name is required and trimmed, and no
\* index or check makes it unique
Names == {1, 2}

\* two projects, a server app and a static site, with any names
InitNames ==
    /\ InitProcess(MaxRuns, {"fresh"})
    /\ buildType = [p \in Projects |-> IF p = 1 THEN "server" ELSE "static"]
    /\ ruleOk = [p \in Projects |-> TRUE]
    /\ exists = [p \in Projects |-> TRUE]
    /\ storedSubDomain = [p \in Projects |-> SeedSubDomain(p)]
    /\ name \in [Projects -> Names]
    /\ distFiles = {}

\* the whole pipeline, with MaxRuns deploy requests, for projects whose
\* names may be the same
SpecNames == InitNames /\ [][Next]_vars

\* -------------------------------------------- the keys of the uploaded site

\* the characters of file names tried: a letter and the backslash, which
\* POSIX file names may contain; "/" separates the names of a path
PathChars == {"a", "\\", "/"}

\* a relative path as path.relative(localPath, file) returns it: names
\* separated by single "/"
IsRelativePath(str) ==
    /\ str # <<>>
    /\ Head(str) # "/"
    /\ str[Len(str)] # "/"
    /\ \A i \in 1..(Len(str) - 1) : ~(str[i] = "/" /\ str[i + 1] = "/")

RelativePaths == {str \in UNION {[1..n -> PathChars] : n \in 1..MaxPath} : IsRelativePath(str)}

\* str is a directory above path
IsDirOf(str, path) ==
    Len(path) > Len(str) + 1 /\ SubSeq(path, 1, Len(str) + 1) = str \o <<"/">>

\* the file sets getFilesRecursively can return: a name is a file or a
\* directory, not both
FileSets ==
    {fs \in SUBSET RelativePaths :
        /\ Cardinality(fs) \in 1..MaxFiles
        /\ \A f, g \in fs : ~IsDirOf(f, g)}

\* the subdomains createProject stores
CreatedSubDomains == {Normalize(Trim(input)) : input \in SubDomainInputs}

RECURSIVE Collapse(_)
\* path.normalize on a path without "." and ".." names: runs of "/" become one
Collapse(str) ==
    IF Len(str) < 2 THEN str
    ELSE IF str[1] = "/" /\ str[2] = "/" THEN Collapse(Tail(str))
    ELSE <<Head(str)>> \o Collapse(Tail(str))

\* path.join(a, b): the arguments joined by "/", then normalized
PathJoin(a, b) == Collapse(a \o <<"/">> \o b)

\* .replace(/\\/g, "/")
ReplaceBackslashes(str) == [i \in DOMAIN str |-> IF str[i] = "\\" THEN "/" ELSE str[i]]

\* const s3Path = `projects/${project.subDomain}`
S3Path(sub) == <<"projects", "/">> \o sub

\* const s3Key = path.join(s3Path, relativePath).replace(/\\/g, "/")
S3Key(s3Path, relativePath) == ReplaceBackslashes(PathJoin(s3Path, relativePath))

UploadFrame == UNCHANGED <<baseVars, name, readyVars, logVars, stopVars, deleteVars>>

\* deployStatic: await s3Service.uploadStaticSite(distPath, s3Path) for the
\* static site project 2: uploadDirectory lists the files, puts one object
\* per file and awaits Promise.all of the puts.  When a put fails the call
\* rejects, whatever objects the other puts have written.
uploadDirectory ==
    /\ upc = "idle"
    /\ \E done \in SUBSET distFiles :
        /\ bucket' = bucket \cup {S3Key(S3Path(storedSubDomain[2]), f) : f \in done}
        /\ upc' = IF done = distFiles THEN "uploaded" ELSE "rejected"
    /\ UNCHANGED distFiles
    /\ UploadFrame

\* a publish directory with any files, for a project created with any
\* subdomain
InitUpload ==
    /\ InitProcess(MaxSolo, {"fresh"})
    /\ buildType = [p \in Projects |-> IF p = 1 THEN "server" ELSE "static"]
    /\ exists = [p \in Projects |-> TRUE]
    /\ storedSubDomain \in {[p \in Projects |-> IF p = 1 THEN SeedSubDomain(1) ELSE sub] :
                               sub \in CreatedSubDomains}
    /\ name = [p \in Projects |-> p]
    /\ distFiles \in FileSets

NextUpload == uploadDirectory

\* the upload of one publish directory
SpecUpload == InitUpload /\ [][NextUpload]_vars

\* ------------------------------------------- the readiness wait, poll by poll

\* the time a call to the docker daemon, or the lateness of a timer, takes
Durations == {0, 1000}

\* what container.inspect() answers: an error, State.Running false, or a
\* running container with State.Health.Status starting, healthy, unhealthy,
\* or without State.Health
Inspections == {"error", "notRunning", "starting", "healthy", "unhealthy", "noHealth"}

ReadyFrame == UNCHANGED <<baseVars, name, uploadVars, logVars, stopVars, deleteVars>>

\* the steps of the call other than the inspection
NoInspection == UNCHANGED <<lastInfo, sawFatal>>

\* State.Running is false, or State.Health.Status is unhealthy
Fatal(info) == info \in {"notRunning", "unhealthy"}

\* the call settles: it returns, or throws the error named
ReadySettles(how) ==
    /\ wpc' = "done"
    /\ wresult' = how
    /\ UNCHANGED polls

\* while (Date.now() - start < maxWaitMs) { ... } throw new Error('Container
\* readiness timeout'): the loop condition, evaluated at time t
LoopHead(t) ==
    IF t < MaxWaitMs
    THEN /\ wpc' = "inspect"
         /\ polls' = polls + 1
         /\ UNCHANGED wresult
    ELSE ReadySettles("timeout")

\* a waitForReadiness that retries a failed inspection at once
AfterRetrySleep_NoSleep(t, late) == t

\* the time when await this.sleep(1000) of the catch block is over
AfterRetrySleep(t, late) == t + RetrySleepMs + late

\* runContainer: await this.waitForReadiness(container, projectId), up to
\* the first await container.inspect()
callWaitForReadiness ==
    /\ wpc = "idle"
    /\ wclock' = 0
    /\ LoopHead(0)
    /\ NoInspection
    /\ ReadyFrame

\* const info = await container.inspect(), and the synchronous code that
\* follows: the checks of State.Running and State.Health.Status
inspect ==
    /\ wpc = "inspect"
    /\ \E d \in Durations : wclock' = wclock + d
    /\ \E info \in Inspections :
        /\ lastInfo' = info
        /\ sawFatal' = (sawFatal \/ Fatal(info))
        /\ CASE info = "error" -> wpc' = "sleepRetry" /\ UNCHANGED <<polls, wresult>>
          [] info = "notRunning" -> wpc' = "logsExited" /\ UNCHANGED <<polls, wresult>>
          [] info = "unhealthy" -> wpc' = "logsUnhealthy" /\ UNCHANGED <<polls, wresult>>
          [] info = "starting" -> wpc' = "sleepPoll" /\ UNCHANGED <<polls, wresult>>
          [] info = "noHealth" -> wpc' = "grace" /\ UNCHANGED <<polls, wresult>>
          [] info = "healthy" -> ReadySettles("returned")
    /\ ReadyFrame

\* await container.logs({...}) and throw new Error('Container exited
\* early...') or new Error('Healthcheck failed...'), which the catch block
\* rethrows; an error of logs() itself is no such error and is retried
containerLogs ==
    /\ wpc \in {"logsExited", "logsUnhealthy"}
    /\ \E d \in Durations : wclock' = wclock + d
    /\ \E ok \in BOOLEAN :
        IF ok
        THEN ReadySettles(IF wpc = "logsExited" THEN "exitedEarly" ELSE "healthcheckFailed")
        ELSE wpc' = "sleepRetry" /\ UNCHANGED <<polls, wresult>>
    /\ NoInspection
    /\ ReadyFrame

\* no health check: await this.sleep(2000); return
grace ==
    /\ wpc = "grace"
    /\ \E late \in Durations : wclock' = wclock + PollSleepMs + late
    /\ ReadySettles("returned")
    /\ NoInspection
    /\ ReadyFrame

\* health starting: await this.sleep(2000), then the loop condition
sleepPoll ==
    /\ wpc = "sleepPoll"
    /\ \E late \in Durations :
        /\ wclock' = wclock + PollSleepMs + late
        /\ LoopHead(wclock + PollSleepMs + late)
    /\ NoInspection
    /\ ReadyFrame

\* catch (err): await this.sleep(1000), then the loop condition
sleepRetry ==
    /\ wpc = "sleepRetry"
    /\ \E late \in Durations :
        /\ wclock' = AfterRetrySleep(wclock, late)
        /\ LoopHead(AfterRetrySleep(wclock, late))
    /\ NoInspection
    /\ ReadyFrame

InitReady ==
    /\ InitRuns(MaxSolo, {"fresh"})
    /\ buildType = [p \in Projects |-> "server"]
    /\ ruleOk = [p \in Projects |-> TRUE]

NextReady ==
    \/ callWaitForReadiness
    \/ inspect
    \/ containerLogs
    \/ grace
    \/ sleepPoll
    \/ sleepRetry

\* one call of waitForReadiness against any sequence of inspection results;
\* every call to the daemon is answered and every timer fires
SpecReady == InitReady /\ [][NextReady]_vars /\ WF_vars(NextReady)

\* ------------------------------------------------- stopContainer, alone

StopFrame == UNCHANGED <<storeVars, runVars, fsVars, portCounter, listed, hostPort, overlapped,
                         existing, image, built, nginxVars, s3Vars, teardownVars,
                         name, readyVars, uploadVars, logVars, deleteVars>>

\* the ids a caller can pass: those of the containers the runs start, of
\* the container of the seed and of no container
ContainerIds == 0..MaxCalls

\* stopContainer(containerId): const container = this.docker.getContainer(
\* containerId) builds a handle without calling the daemon
callStopContainer(id) ==
    /\ spc = "idle"
    /\ spc' = "stop"
    /\ stopArg' = id
    /\ UNCHANGED <<sfault, containers>>
    /\ StopFrame

\* the answers of the daemon to POST /containers/{id}/stop: 204 for a
\* running container, 304 for a container that is not running, 404 for no
\* container, 500 for an error of the daemon
StopAnswers ==
    IF ContainerById(stopArg) = {} THEN {"noSuchContainer", "serverError"}
    ELSE IF \E c \in ContainerById(stopArg) : c.state = "running"
         THEN {"stopped", "serverError"}
         ELSE {"notModified", "serverError"}

\* await container.stop({ t: 10 }): dockerode resolves on 204 alone; on
\* every other answer it rejects, and the catch block of stopContainer logs
\* the error and returns
stopContainerStop ==
    /\ spc = "stop"
    /\ \E answer \in StopAnswers :
        /\ IF answer = "stopped"
           THEN /\ containers' = {IF c.id = stopArg THEN [c EXCEPT !.state = "exited"] ELSE c :
                                    c \in containers}
                /\ spc' = "remove"
           ELSE /\ UNCHANGED containers
                /\ spc' = "returned"
        /\ sfault' = (sfault \/ answer = "serverError")
    /\ UNCHANGED stopArg
    /\ StopFrame

\* the answers of the daemon to DELETE /containers/{id}?force=true
RemoveAnswers ==
    IF ContainerById(stopArg) = {} THEN {"noSuchContainer", "serverError"}
    ELSE {"removed", "serverError"}

\* await container.remove({ force: true }); a rejection is caught and logged
stopContainerRemove ==
    /\ spc = "remove"
    /\ \E answer \in RemoveAnswers :
        /\ containers' = IF answer = "removed" THEN containers \ ContainerById(stopArg)
                                                ELSE containers
        /\ sfault' = (sfault \/ answer = "serverError")
    /\ spc' = "returned"
    /\ UNCHANGED stopArg
    /\ StopFrame

InitStop == InitDriver

NextStop ==
    \/ NextDriver
    \/ \E id \in ContainerIds : callStopContainer(id)
    \/ stopContainerStop
    \/ stopContainerRemove

\* one call of stopContainer, at any time, among the calls of buildAndDeploy
SpecStop == InitStop /\ [][NextStop]_vars

\* --------------------------------------------------- deleteFiles, alone

DeleteFrame == UNCHANGED <<baseVars, name, readyVars, distFiles, upc, logVars, stopVars>>

\* the keys uploadDirectory computes for the files of project p
ObjectsOf(p) == {S3Key(S3Path(storedSubDomain[p]), f) : f \in distFiles}

\* Prefix of ListObjectsV2: the keys that begin with the string
HasPrefix(key, prefix) ==
    Len(key) >= Len(prefix) /\ SubSeq(key, 1, Len(prefix)) = prefix

\* deployStatic of project p: uploadStaticSite(distPath, s3Path) puts the
\* objects of the publish directory, all of them unless a put fails
uploadSite(p) ==
    /\ \E done \in SUBSET ObjectsOf(p) :
        /\ done # {}
        /\ bucket' = bucket \cup done
    /\ UNCHANGED deleteVars
    /\ DeleteFrame

\* cleanup: await s3Service.deleteFiles(project.currentDeployment.s3Path)
callDeleteFiles(p) ==
    /\ fpc = "idle"
    /\ fpc' = "list"
    /\ ftarget' = p
    /\ UNCHANGED <<flisted, bucket>>
    /\ DeleteFrame

\* const objects = await this.s3.send(new ListObjectsV2Command({ Bucket,
\* Prefix: s3Path })); nothing listed, or a rejection (caught and logged),
\* ends the call
listObjects ==
    /\ fpc = "list"
    /\ \E ok \in BOOLEAN :
        LET found == {k \in bucket : HasPrefix(k, S3Path(storedSubDomain[ftarget]))}
        IN  IF ok /\ found # {}
            THEN /\ flisted' = found
                 /\ fpc' = "delete"
            ELSE /\ fpc' = "returned"
                 /\ UNCHANGED flisted
    /\ UNCHANGED <<ftarget, bucket>>
    /\ DeleteFrame

\* await this.s3.send(new DeleteObjectsCommand({ Bucket, Delete: { Objects:
\* the keys listed } })); a rejection is caught and logged
deleteObjects ==
    /\ fpc = "delete"
    /\ \E ok \in BOOLEAN :
        bucket' = IF ok THEN bucket \ flisted ELSE bucket
    /\ fpc' = "returned"
    /\ UNCHANGED <<ftarget, flisted>>
    /\ DeleteFrame

\* two static sites with the same publish directory, project 2 created
\* with any subdomain of its own other than that of project 1
InitDelete ==
    /\ buildType = [p \in Projects |-> "static"]
    /\ InitState(MaxSolo, {"fresh"})
    /\ exists = [p \in Projects |-> TRUE]
    /\ storedSubDomain \in {[p \in Projects |-> IF p = 1 THEN SeedSubDomain(1) ELSE sub] :
                               sub \in CreatedSubDomains \ {<<>>, SeedSubDomain(1)}}
    /\ name = [p \in Projects |-> p]
    /\ distFiles \in FileSets

NextDelete ==
    \/ \E p \in Projects : uploadSite(p)
    \/ \E p \in Projects : callDeleteFiles(p)
    \/ listObjects
    \/ deleteObjects

\* uploads of two projects and one call of deleteFiles
SpecDelete == InitDelete /\ [][NextDelete]_vars

\* ------------------------------------------------------ process restart

\* the process ends and a new one starts: export const dockerService = new
\* DockerService() sets portCounter to 3001 again.  The calls the old
\* process was in do not go on; the containers, the images, the files and
\* the rules of the proxy stay as they are.
restart ==
    /\ \E r \in Runs : proj[r] # 0
    /\ pc' = [r \in Runs |-> IF proj[r] # 0 THEN "dead" ELSE pc[r]]
    /\ portCounter' = BasePort
    /\ UNCHANGED <<storeVars, proj, failed, result, statusWrites, catchLogged, cleanupTried,
                   fsVars, containers, listed, hostPort, overlapped, existing, image, built,
                   nginxVars, s3Vars, teardownVars>>

InitRestart == InitDriver

NextRestart ==
    \/ NextDriver
    \/ restart /\ Elsewhere

\* calls of buildAndDeploy in processes that follow each other
SpecRestart == InitRestart /\ [][NextRestart]_vars

\* -------------------------------------------- deletion during a run

\* a run of deploy() for project p has started and not finished
InFlight(p) == \E r \in Runs : proj[r] = p /\ pc[r] \notin {"idle", "done"}

\* DELETE /:id while a run for the project is in flight: deleteProject
\* looks at nothing but the record
deleteInFlight(p) == InFlight(p) /\ deleteProject(p)

InitInFlight == InitTeardown

NextInFlight ==
    \/ Next
    \/ \E p \in Projects : deleteInFlight(p) /\ Elsewhere
    \/ \E p \in Projects : cleanupStep(p) /\ Elsewhere

\* one run, and deletions of its project while it is in flight
SpecInFlight == InitInFlight /\ [][NextInFlight]_vars

\* ================================================================ claims

Range(w) == {w[i] : i \in DOMAIN w}

\* C1: at no time are two runs active for the same project id (a deploy
\* request for a project whose run is still active starts no second run).
C1_SingleFlight ==
    \A r \in Runs : \A q \in Runs :
        (r # q /\ Active(r) /\ Active(q)) => proj[r] # proj[q]

\* C2: the host ports returned by getNextAvailablePort calls of one process
\* are pairwise distinct, whether the calls overlap or not and whichever
\* path (listing or listing-error fallback) each takes.
C2_DistinctPorts ==
    \A r \in Runs : \A q \in Runs :
        (r # q /\ hostPort[r] # 0 /\ hostPort[q] # 0) => hostPort[r] # hostPort[q]

\* two calls were suspended at their listings together, one took the normal
\* path and one the fallback path, and both have returned
C2_Witness ==
    /\ overlapped
    /\ \E r \in Runs : \E q \in Runs :
        /\ hostPort[r] # 0 /\ listed[r].ok
        /\ hostPort[q] # 0 /\ ~listed[q].ok

\* the step in which getNextAvailablePort returns to run r
Returns(r) == pc[r] = "gnapResume" /\ pc'[r] = "create"

\* C3: no port is, at the time getNextAvailablePort returns it, a port a
\* container on the runtime carries as its deployflow.port label or has
\* bound on the host.
C3_NotInUseAtReturn ==
    [][\A r \in Runs : Returns(r) => hostPort'[r] \notin UsedPorts(containers')]_vars

\* C4: a run that has finished has issued the removal of its workspace,
\* whichever way it left the try block.
C4_CleanupOnEveryExit == \A r \in Runs : pc[r] = "done" => cleanupTried[r]

\* a run failed, its status update in the catch block failed too, and the
\* removal of the workspace was still issued
C4_Witness ==
    \E r \in Runs : pc[r] = "done" /\ failed[r] /\ result[r] = "rejected" /\ cleanupTried[r]

\* C5: when a stage fails, no later stage is executed, the status failed is
\* written and the error entry 'Deployment failed: ...' is emitted.
C5_FailureHandled ==
    \A r \in Runs :
        /\ failed[r] => pc[r] \in {"catch", "finally", "done"}
        /\ (pc[r] = "done" /\ failed[r]) =>
                (catchLogged[r] /\ "failed" \in Range(statusWrites[r]))

\* C6: the promise returned by deploy() never rejects.
C6_NeverRejects == \A r \in Runs : result[r] # "rejected"

\* C7: a finished run has written deploying first and then exactly one
\* terminal status, running or failed, and running only if no stage failed.
C7_StatusStateMachine ==
    \A r \in Runs :
        pc[r] = "done" =>
            LET w == statusWrites[r] IN
            /\ Len(w) >= 2
            /\ w[1] = "deploying"
            /\ \A i \in 2..Len(w) : w[i] \in {"running", "failed"}
            /\ Cardinality({w[i] : i \in 2..Len(w)}) = 1
            /\ w[Len(w)] = "running" => ~failed[r]

\* C8: when the rule a configure call installs fails validation, the rule
\* is not in the enabled configuration set afterwards.
C8_RejectBeforeActivate ==
    [][\A r \in Runs :
          (pc[r] = "nginxTest" /\ pc'[r] = "catch" /\ ~ruleOk[subDomain(r)])
              => EnabledConfig'[subDomain(r)] # hostPort[r]]_vars

\* run r is inside the stage -> install -> validate -> reload sequence
InProxySequence(r) == pc[r] \in {"nginxWrite", "nginxMv", "nginxLn", "nginxTest", "nginxReload"}

\* C9: at most one run at a time is inside the proxy configuration sequence.
C9_ProxyWritesSerialized ==
    \A r \in Runs : \A q \in Runs :
        (InProxySequence(r) /\ InProxySequence(q)) => r = q

\* buildAndDeploy has returned a ready container to run r
DriverReturned(r) ==
    /\ hostPort[r] # 0
    /\ ~failed[r]
    /\ pc[r] \notin {"gnapList", "gnapResume", "create", "start", "ready"}

RunsOf(p) == {r \in Runs : proj[r] = p}

\* C10: a project never has more than one container, and when two or more
\* server-mode runs of a project have taken place and all have succeeded,
\* exactly one container exists for it and it is running.
C10_ReplaceNeverDuplicate ==
    \A p \in Projects :
        /\ Cardinality(NamedFor(p)) <= 1
        /\ (Cardinality(RunsOf(p)) >= 2 /\ \A r \in RunsOf(p) : DriverReturned(r))
                => \E c \in containers : NamedFor(p) = {c} /\ c.state = "running"

\* two runs of one project have succeeded, the second having replaced the
\* container of the first
C10_Witness ==
    \E p \in Projects :
        /\ Cardinality(RunsOf(p)) >= 2
        /\ \A r \in RunsOf(p) : DriverReturned(r)
        /\ Cardinality(NamedFor(p)) = 1

\* the step in which updateProjectDeployment of run r succeeds
Persists(r) == pc[r] = "persist" /\ pc'[r] = "setRunning" /\ exists[ProjectOf(r)]

\* C11: when a run persists its deployment for a project that has a current
\* deployment, that prior deployment is appended to the history list and the
\* deployment of the run becomes the current one.
C11_PriorAppendedToHistory ==
    [][\A r \in Runs :
          (Persists(r) /\ currentDeployment[ProjectOf(r)].version # -1)
              => /\ deployments'[ProjectOf(r)] =
                        Append(deployments[ProjectOf(r)], currentDeployment[ProjectOf(r)])
                 /\ currentDeployment'[ProjectOf(r)].version = r]_vars

\* the step of run r's stopExistingContainer that stops or removes container c
StopsOrRemoves(r, c) ==
    /\ pc[r] \in {"stopStop", "stopRemove"}
    /\ pc'[r] # pc[r]
    /\ c \in containers
    /\ c \notin containers'

\* C12: a run takes the running container of its project out of service
\* only once its own new container has passed the readiness wait.
C12_ReplacedAfterReady ==
    [][\A r \in Runs : \A c \in containers :
          (c.name = ProjectOf(r) /\ c.state = "running" /\ StopsOrRemoves(r, c))
              => DriverReturned(r)]_vars

\* C13: a call of buildAndDeploy stops or removes the existing container of
\* its project only if its image build has succeeded.
C13_StopOnlyAfterBuild ==
    [][\A r \in Runs : \A c \in containers :
          (c.name = ProjectOf(r) /\ StopsOrRemoves(r, c)) => built[r] = "built"]_vars

\* C14: a run whose image build failed (error record in the output, or the
\* build stream erred) goes no further: it is handled as failed, it has no
\* container, and when it has finished it has written the status failed.
C14_FailedBuildIsFatal ==
    \A r \in Runs :
        built[r] \in {"errorRecord", "rejected"} =>
            /\ failed[r]
            /\ pc[r] \in {"catch", "finally", "done"}
            /\ ContainerById(r) = {}
            /\ pc[r] = "done" => "failed" \in Range(statusWrites[r])

\* the step in which the last statement of deploy()'s try block completes
Succeeds(r) == pc[r] = "setRunning" /\ pc'[r] = "finally"

\* C15: when a server-mode run has succeeded, the enabled rule of its
\* subdomain has the port allocated in the run as its upstream, the running
\* container of the project is bound to that port, and the status is running.
C15_RuleMatchesContainer ==
    [][\A r \in Runs :
          (Succeeds(r) /\ buildType[ProjectOf(r)] = "server") =>
              /\ EnabledConfig'[subDomain(r)] = hostPort[r]
              /\ \E c \in containers' :
                    c.name = ProjectOf(r) /\ c.state = "running" /\ c.bound = hostPort[r]
              /\ status'[ProjectOf(r)] = "running"]_vars

\* C16: at the step that removes the record of a project from the store,
\* the teardown of the project has already been performed.
C16_TeardownBeforeRemoval ==
    [][\A p \in Projects :
          (exists[p] /\ ~exists'[p]) => cleanupResult[p] \in {"returned", "raised"}]_vars

\* C17: no call of cleanup(project) raises.
C17_CleanupNeverRaises == \A p \in Projects : cleanupResult[p] # "raised"

\* a step of the second or a later call of cleanup(project)
LaterCleanupStep(p) ==
    \/ cleanupCalls[p] >= 1 /\ cleanupCalls'[p] = cleanupCalls[p] + 1
    \/ cleanupCalls[p] >= 2 /\ dpc'[p] # dpc[p]

\* C18: a second call of cleanup for a project with no object under its
\* prefix and no container raises no error and changes nothing in object
\* storage, in the container runtime or in the project store.
C18_TeardownIdempotent ==
    [][\A p \in Projects :
          (LaterCleanupStep(p) /\ ~objects[p] /\ NamedFor(p) = {})
              => /\ cleanupResult'[p] # "raised"
                 /\ UNCHANGED <<objects, containers, storeVars>>]_vars

\* no run of project p is under way
Quiet(p) == \A r \in Runs : proj[r] = p => pc[r] = "done"

\* C19: when cleanup has returned for a successfully deployed project, with
\* every storage and runtime call of the teardown succeeding, no container
\* of the project and no object under its prefix remains.
C19_TeardownRemoves ==
    \A p \in Projects :
        (/\ dpc[p] = "done" /\ cleanupResult[p] = "returned" /\ ~delFault[p]
         /\ currentDeployment[p].version # -1 /\ Quiet(p))
            => NamedFor(p) = {} /\ ~objects[p]

\* only lowercase characters of [a-z0-9-]
IsNormalized(str) == \A i \in DOMAIN str : InClass(str[i])

\* C20: the subdomain of every project of the store is normalized.
C20_SubdomainsNormalized ==
    \A p \in Projects : exists[p] => IsNormalized(storedSubDomain[p])

\* C21: at no time do two projects of the store have subdomains with the
\* same normalized form.
C21_UniqueOnNormalizedForm ==
    \A p, q \in Projects :
        (p # q /\ exists[p] /\ exists[q])
            => Normalize(storedSubDomain[p]) # Normalize(storedSubDomain[q])

\* the polls a call can make: every iteration that does not settle the call
\* sleeps RetrySleepMs at least
MaxPolls == MaxWaitMs \div RetrySleepMs

\* C30: for any sequence of inspection results the readiness wait settles:
\* it makes a bounded number of polls, it throws the readiness timeout only
\* once the maximum wait has elapsed, and it eventually returns or throws.
C30_ReadinessTerminates ==
    /\ [](polls <= MaxPolls)
    /\ [](wresult = "timeout" => wclock >= MaxWaitMs)
    /\ <>(wpc = "done" /\ wresult # "pending")

\* the wait ran to the timeout after failed inspections
C30_Witness == wresult = "timeout" /\ polls > 1

\* run q is at a stage that works in its cloned workspace
InWorkspace(q) ==
    pc[q] \in {"npmInstall", "buildCommand", "access", "upload", "ensureDockerfile", "buildImage"}

\* the step in which cleanupTemp of run r removes the directory at its path
RemovesWorkspace(r) ==
    pc[r] = "finally" /\ pc'[r] = "done" /\ projectPath(r) \in workspace \ workspace'

\* C28: the workspace removal of a run never deletes the workspace another
\* project's active run is working in.
C28_WorkspacePerProject ==
    [][\A r, q \in Runs :
          (RemovesWorkspace(r) /\ proj[q] # proj[r] /\ InWorkspace(q))
              => projectPath(q) # projectPath(r)]_vars

\* run r is suspended at a build step: the install or build command, or
\* the image build
InBuild(r) == pc[r] \in {"npmInstall", "buildCommand", "buildImage"}

\* C26: a run never stays at a build step for ever: the step completes or
\* is cut off, so that the run goes on to status running or failed.
C26_BuildStepsAreCutOff ==
    \A r \in 1..MaxSolo : InBuild(r) ~> ~InBuild(r)

\* the key projects/{subdomain}/r of the file at relative path r
ExpectedKey(sub, r) == <<"projects", "/">> \o sub \o <<"/">> \o r

\* C25: after a successful upload of the publish directory, for every file
\* at relative path r there is an object at key projects/{subdomain}/r.
C25_ObjectPerFile ==
    upc = "uploaded" => \A f \in distFiles : ExpectedKey(storedSubDomain[2], f) \in bucket

\* run r enters stage `to` in this step
Enters(r, to) == pc[r] # to /\ pc'[r] = to

\* run r writes status st in this step
Writes(r, st) ==
    /\ Len(statusWrites'[r]) = Len(statusWrites[r]) + 1
    /\ statusWrites'[r][Len(statusWrites'[r])] = st

\* C27: within a run the stages execute in sequence: the clone starts once
\* status deploying is written; the build, or the image build, starts once
\* the clone is complete; the install and build commands run in static mode
\* only, and the upload starts once the build succeeded and the publish
\* directory was found; the proxy is configured once the driver returned a
\* running container and its port; the deployment record is persisted once
\* the upload or the proxy reload succeeded, and status running is written
\* with the record or after it.
C27_StagesInSequence ==
    [][\A r \in Runs :
          /\ Enters(r, "clone") => pc[r] = "setDeploying" /\ Writes(r, "deploying")
          /\ Enters(r, "npmInstall") \/ Enters(r, "ensureDockerfile")
                => pc[r] = "clone" /\ projectPath(r) \in workspace'
          /\ Enters(r, "npmInstall") \/ Enters(r, "buildCommand") \/ Enters(r, "access")
                \/ Enters(r, "upload")
                => buildType[ProjectOf(r)] = "static"
          /\ Enters(r, "buildCommand") => pc[r] = "npmInstall"
          /\ Enters(r, "access") => pc[r] = "buildCommand"
          /\ Enters(r, "upload") => pc[r] = "access"
          /\ Enters(r, "buildImage") => pc[r] = "ensureDockerfile"
          /\ Enters(r, "nginxWrite")
                => /\ pc[r] = "ready"
                   /\ hostPort[r] # 0
                   /\ \E c \in ContainerById(r) : c.state = "running" /\ c.bound = hostPort[r]
          /\ Enters(r, "persist") => pc[r] \in {"upload", "nginxReload"}
          /\ Enters(r, "persist") /\ pc[r] = "upload" => objects'[ProjectOf(r)]
          /\ Enters(r, "persist") /\ pc[r] = "nginxReload" => loaded'[subDomain(r)] # 0
          /\ Writes(r, "running")
                => \/ pc[r] = "persist" /\ currentDeployment'[ProjectOf(r)].version = r
                   \/ pc[r] = "setRunning" /\ statusWrites[r] = <<"deploying", "running">>]_vars

\* a server run and a static run that went through every stage
C27_Witness ==
    \E r \in Runs : pc[r] = "done" /\ statusWrites[r] = <<"deploying", "running", "running">>

\* the entries of run r that were saved under its project: emitLog was
\* called with the id of the project
SavedBy(r) == {[run |-> m.run, n |-> m.n] : m \in {k \in published : k.run = r /\ k.key = IdKey(ProjectOf(r))}}

\* C22: once a run is complete and its saves have settled, the log of its
\* project holds every entry the run emitted and saved.
C22_LogOfRunComplete ==
    \A r \in Runs :
        (pc[r] = "done" /\ inFlight = {})
            => SavedBy(r) \subseteq Range(getProjectLogs(ProjectOf(r)))

\* C23: the entries of one run are stored in the order of their emission.
C23_OrderedByEmission ==
    \A p \in Projects : \A i, j \in DOMAIN logs[p] :
        (i < j /\ logs[p][i].run = logs[p][j].run) => logs[p][i].n < logs[p][j].n

\* C24: the log of a completed deployment holds entries of the run that
\* made the deployment only.
C24_CompletedDeploymentImmutable ==
    \A p \in Projects :
        currentDeployment[p].version >= 0
            => \A e \in Range(logs[p]) : e.run = currentDeployment[p].version

\* C29: every entry a run emits is published and saved under the id of the
\* project of the run.
C29_EntriesKeyedByProject ==
    \A m \in published : m.key = IdKey(ProjectOf(m.run))

\* C31: the readiness wait returns only after an inspection that answered
\* healthy, or running without a health probe, and it does not return once
\* an inspection has answered not running or unhealthy.
C31_ReadyOnlyWhenReady ==
    wresult = "returned"
        => /\ lastInfo \in {"healthy", "noHealth"}
           /\ ~sawFatal

\* the step in which fs.access(distPath) of static run r rejects
PublishDirMissing(r) == pc[r] = "access" /\ pc'[r] = "catch"

\* the step in which the catch block of static run r, which the rejection
\* enters, is left
LeavesCatch(r) ==
    pc[r] = "catch" /\ pc'[r] # "catch" /\ buildType[ProjectOf(r)] = "static"

\* C32: when the publish directory of a static run does not exist, nothing
\* is uploaded and the catch block the run enters writes status failed.
C32_MissingPublishDirFails ==
    [][\A r \in Runs :
          /\ PublishDirMissing(r) => objects' = objects
          /\ LeavesCatch(r) => Writes(r, "failed")]_vars

\* C33: the port counter never decreases, and every port getNextAvailablePort
\* returns is at least the base port and greater than every port an earlier
\* call of the process returned.
C33_PortCounterMonotonic ==
    [][/\ portCounter' >= portCounter
       /\ \A r \in Runs :
            Returns(r)
                => /\ hostPort'[r] >= BasePort
                   /\ \A q \in Runs \ {r} : hostPort[q] # 0 => hostPort'[r] > hostPort[q]]_vars

\* two calls have returned, and the container the earlier one started on its
\* port has been removed since
C33_Witness ==
    \E r, q \in Runs :
        /\ hostPort[q] # 0
        /\ pc[q] = "nginxWrite"
        /\ hostPort[r] > hostPort[q]
        /\ \A c \in containers : c.label # hostPort[q] /\ c.bound # hostPort[q]

\* C34: when no call to the container runtime failed, the container
\* stopContainer was called for no longer exists once the call has
\* returned, whatever state the container was in.
C34_StopContainerRemoves ==
    (spc = "returned" /\ ~sfault) => ContainerById(stopArg) = {}

\* C35: deleteFiles, called for one project, removes no object of another
\* project (an object that is not also one of the project it was called
\* for), whatever the two subdomains are.
C35_TeardownLeavesOthers ==
    [][\A q \in Projects :
          (fpc = "delete" /\ q # ftarget)
              => ((ObjectsOf(q) \ ObjectsOf(ftarget)) \cap bucket) \subseteq bucket']_vars

\* C36: no rule installed in the enabled set of the proxy routes a subdomain
\* to a host port that a running container of another project is bound to.
C36_RoutingConsistent ==
    \A s \in Projects : \A c \in containers :
        (EnabledConfig[s] # 0 /\ c.state = "running" /\ c.bound = EnabledConfig[s])
            => (c.name \notin Projects \ {s})

\* C37: a configure call whose own rule is valid passes the validation
\* step of the proxy, also after a configure call for another subdomain
\* failed it.
C37_ValidRulePasses ==
    [][\A r \in Runs :
          (pc[r] = "nginxTest" /\ ruleOk[subDomain(r)]) => pc'[r] # "catch"]_vars

\* C38: once the delete request of a project deleted during a run and the
\* run have both finished, the project has no stored object and no
\* container that the run created.
C38_NothingLeftAfterDelete ==
    \A p \in Projects :
        (/\ ~exists[p]
         /\ dpc[p] = "done"
         /\ ~InFlight(p))
            => /\ ~objects[p]
               /\ \A c \in containers : c.name = p => c.id \notin Runs

\* C39: a run that fails leaves the current deployment of the project as
\* it was before the run: the record does not hold the deployment data of
\* a failed run.
C39_FailedRunKeepsDeployment ==
    \A r \in Runs :
        (pc[r] = "done" /\ failed[r])
            => currentDeployment[ProjectOf(r)].version # DeploymentData(r).version

====
